---- MODULE Spec2Model ----
(***************************************************************************)
(* A model of packages/draw/canvas.mjs: the value extractor (getValue),    *)
(* the window calculation and frame filter of Pattern.prototype.canvas,    *)
(* its inverse getDrawOptions, and the webcam / hand-pose overlay that     *)
(* _canvas drives through module-level state.                              *)
(***************************************************************************)
EXTENDS Integers, Sequences, FiniteSets, TLC

(***************************************************************************)
(* Bounds of the model.                                                    *)
(***************************************************************************)
\* cycles ranges over 0, 1/2, 1, ... , MaxCycles (in halves)
MaxCycles == 4
\* playhead ranges over k / PlayheadSteps, k \in 0..PlayheadSteps
PlayheadSteps == 4
\* the number of direct _canvas calls a behaviour makes
MaxCalls == 3
\* the number of Pattern.canvas attachments a behaviour makes
MaxAttach == 2
\* the scheduler ticks at times 0..MaxTime
MaxTime == 1
\* the pattern has unit events [b, b + 1) for b in -HapSpan..HapSpan
HapSpan == 4

(***************************************************************************)
(* JavaScript numbers, as exact rationals <<numerator, denominator>> with  *)
(* denominator > 0 and the fraction in lowest terms.                       *)
(***************************************************************************)
RECURSIVE Gcd(_, _)
Gcd(a, b) == IF b = 0 THEN a ELSE Gcd(b, a % b)

AbsInt(x) == IF x < 0 THEN -x ELSE x

Rat(n, d) ==
    LET s == IF d < 0 THEN -1 ELSE 1
        g == Gcd(AbsInt(n), AbsInt(d))
    IN  <<(s * n) \div g, (s * d) \div g>>

Num(i) == <<i, 1>>

RAdd(x, y) == Rat(x[1] * y[2] + y[1] * x[2], x[2] * y[2])
RNeg(x) == <<-x[1], x[2]>>
RSub(x, y) == RAdd(x, RNeg(y))
RMul(x, y) == Rat(x[1] * y[1], x[2] * y[2])
\* x / y; a zero divisor gives NaN (0 / 0) or an infinity, it does not throw
NaN == <<0, 0>>
Infinity == <<1, 0>>
RDiv(x, y) ==
    IF y[1] = 0
    THEN IF x[1] = 0 THEN NaN ELSE IF x[1] > 0 THEN Infinity ELSE RNeg(Infinity)
    ELSE Rat(x[1] * y[2], x[2] * y[1])
RAbs(x) == <<AbsInt(x[1]), x[2]>>
RLe(x, y) == x[1] * y[2] <= y[1] * x[2]
RLt(x, y) == x[1] * y[2] < y[1] * x[2]

(***************************************************************************)
(* Option objects: functions from the keys that are present to values.     *)
(* A key that is not in the domain reads as undefined.                     *)
(***************************************************************************)
Has(o, k) == k \in DOMAIN o

\* a destructuring default  { k = dflt } = o
Dflt(o, k, dflt) == IF Has(o, k) THEN o[k] ELSE dflt

\* object spread  { ...a, ...b }
Spread(a, b) ==
    [k \in DOMAIN a \cup DOMAIN b |-> IF k \in DOMAIN b THEN b[k] ELSE a[k]]

(***************************************************************************)
(* Window calculation of Pattern.prototype.canvas.                         *)
(***************************************************************************)
DefaultCycles == 4

optCycles(options) == Dflt(options, "cycles", Num(DefaultCycles))
optPlayhead(options) == Dflt(options, "playhead", <<1, 2>>)
optOverscan(options) == Dflt(options, "overscan", Num(0))
optHideNegative(options) == Dflt(options, "hideNegative", FALSE)

\* let from = -cycles * playhead;
from(options) == RMul(RNeg(optCycles(options)), optPlayhead(options))

\* let to = cycles * (1 - playhead);
WrongTo(options) == RMul(optCycles(options), optPlayhead(options))
to(options) == RMul(optCycles(options), RSub(Num(1), optPlayhead(options)))

\* lookbehind: from - overscan
LookbehindInward(options) == RAdd(from(options), optOverscan(options))
drawLookbehind(options) == RSub(from(options), optOverscan(options))

\* lookahead: to + overscan
drawLookahead(options) == RAdd(to(options), optOverscan(options))

(***************************************************************************)
(* getDrawOptions(drawTime, options): the inverse of the window            *)
(* calculation.  drawTime is <<lookbehind, lookahead>>.                    *)
(***************************************************************************)
DrawOptionsNoAbs(drawTime, options) ==
    LET lookbehind == drawTime[1]
        lookahead  == drawTime[2]
        cycles     == RAdd(lookahead, lookbehind)
        playhead   == IF cycles # Num(0) THEN RDiv(lookbehind, cycles) ELSE Num(0)
    IN  Spread(Spread([k \in {"fold"} |-> Num(1)], options),
               [k \in {"cycles", "playhead"} |->
                   IF k = "cycles" THEN cycles ELSE playhead])

DrawOptionsOverridable(drawTime, options) ==
    LET lookbehind == RAbs(drawTime[1])
        lookahead  == drawTime[2]
        cycles     == RAdd(lookahead, lookbehind)
        playhead   == IF cycles # Num(0) THEN RDiv(lookbehind, cycles) ELSE Num(0)
    IN  Spread(Spread([k \in {"fold"} |-> Num(1)],
                      [k \in {"cycles", "playhead"} |->
                          IF k = "cycles" THEN cycles ELSE playhead]),
               options)

getDrawOptions(drawTime, options) ==
    LET lookbehind == RAbs(drawTime[1])
        lookahead  == drawTime[2]
        cycles     == RAdd(lookahead, lookbehind)
        playhead   == IF cycles # Num(0) THEN RDiv(lookbehind, cycles) ELSE Num(0)
    IN  Spread(Spread([k \in {"fold"} |-> Num(1)], options),
               [k \in {"cycles", "playhead"} |->
                   IF k = "cycles" THEN cycles ELSE playhead])

(***************************************************************************)
(* JavaScript values of an event payload.  A scalar carries its type tag   *)
(* t and its number n or string s; an object carries its fields f, a       *)
(* function from the field names that are present to scalars.              *)
(***************************************************************************)
NoFields == [k \in {} |-> 0]

JsUndef == [t |-> "undefined", n |-> 0, s |-> "", f |-> NoFields]
JsNull == [t |-> "null", n |-> 0, s |-> "", f |-> NoFields]
JsNum(i) == [t |-> "number", n |-> i, s |-> "", f |-> NoFields]
JsStr(str) == [t |-> "string", n |-> 0, s |-> str, f |-> NoFields]
JsObj(fields) == [t |-> "object", n |-> 0, s |-> "", f |-> fields]

\* typeof v
typeOf(v) == IF v.t = "null" THEN "object" ELSE v.t

\* ToBoolean(v), as used by  if (v)
Truthy(v) ==
    CASE v.t = "undefined" -> FALSE
      [] v.t = "null" -> FALSE
      [] v.t = "number" -> v.n # 0
      [] v.t = "string" -> v.s # ""
      [] OTHER -> TRUE

\* obj.k for an object value; a missing field reads as undefined
Field(obj, k) == IF k \in DOMAIN obj.f THEN obj.f[k] ELSE JsUndef

\* a ?? b
Nullish(a, b) == IF a.t \in {"undefined", "null"} THEN b ELSE a

(***************************************************************************)
(* The conversions imported from @strudel/core.                            *)
(***************************************************************************)
\* note names the model uses that noteToMidi accepts, with their pitch
NoteTable == [nm \in {"c4", "a4", "e3"} |->
                 CASE nm = "c4" -> 60 [] nm = "a4" -> 69 [] nm = "e3" -> 52]

\* noteToMidi(note) throws on a name it cannot parse
noteToMidiThrows(note) == note \notin DOMAIN NoteTable
noteToMidi(note) == NoteTable[note]

\* freqToMidi(freq) = 12 * log2(freq / 440) + 69, on the octaves of 440 Hz
RECURSIVE freqToMidi(_)
freqToMidi(freq) ==
    IF freq = 440 THEN 69
    ELSE IF freq > 440 THEN freqToMidi(freq \div 2) + 12
    ELSE freqToMidi(freq * 2) - 12

(***************************************************************************)
(* getValue(e).  The outcome is a record: thrown tells whether the call    *)
(* raised an exception, val is the value returned otherwise.               *)
(***************************************************************************)
Return(v) == [thrown |-> FALSE, val |-> v]
Throw == [thrown |-> TRUE, val |-> JsUndef]

getValue(e) ==
    LET value == IF typeOf(e.value) # "object"
                 THEN JsObj([k \in {"value"} |-> e.value])
                 ELSE e.value
    IN  \* let { note, n, freq, s } = value  throws a TypeError on null
        IF value.t = "null" THEN Throw
        ELSE
        LET freq == Field(value, "freq")
            s    == Field(value, "s")
            note == Nullish(Field(value, "note"), Field(value, "n"))
        IN  IF Truthy(freq) THEN Return(JsNum(freqToMidi(freq.n)))
            ELSE IF typeOf(note) = "string"
                 THEN IF noteToMidiThrows(note.s)
                      THEN Return(JsNum(0))
                      ELSE Return(JsNum(noteToMidi(note.s)))
            ELSE IF typeOf(note) = "number" THEN Return(note)
            ELSE IF Truthy(s) THEN Return(JsStr("_" \o s.s))
            ELSE Return(value)

(***************************************************************************)
(* The payloads the value extractor is applied to.                         *)
(***************************************************************************)
ScalarPayloads ==
    {JsUndef, JsNull, JsNum(0), JsNum(60), JsStr("c4"), JsStr("bd")}

NoteValues == {JsNull, JsStr("c4"), JsStr("not-a-note"), JsNum(60)}
NValues == {JsStr("a4"), JsNum(3)}
FreqValues == {JsNum(440), JsNum(880), JsNum(0)}
SValues == {JsStr("bd"), JsStr("")}

FieldValues(k) ==
    CASE k = "note" -> NoteValues
      [] k = "n" -> NValues
      [] k = "freq" -> FreqValues
      [] k = "s" -> SValues

ObjectPayloads ==
    UNION {{JsObj(fs) : fs \in {g \in [ks -> NoteValues \cup NValues \cup FreqValues \cup SValues] :
                                    \A k \in ks : g[k] \in FieldValues(k)}} :
           ks \in SUBSET {"note", "n", "freq", "s"}}

Payloads == ScalarPayloads \cup ObjectPayloads

(***************************************************************************)
(* Drawing surfaces, gesture callbacks and detected hands.                 *)
(***************************************************************************)
\* the drawing contexts a caller can pass as ctx
Surfaces == {1, 2}
\* getDrawContext(): the shared default context
DefaultCtx == 1

\* options.callback: 0 when none is supplied
Callbacks == {0, 1, 2}

\* the arguments of a _canvas call that _canvas reads: ctx (with its width
\* and height) and options.callback
CanvasArgs == [ctx : Surfaces, callback : Callbacks]

\* the result lists the detection callback delivers: each hand with its
\* confidence, its handedness and whether keypoints 4 and 8 (thumb tip and
\* index tip) are present
DetectionResults ==
    {<<>>,
     <<[confidence |-> <<9, 10>>, handedness |-> "Left", tips |-> TRUE]>>,
     <<[confidence |-> <<4, 5>>, handedness |-> "Right", tips |-> TRUE]>>,
     <<[confidence |-> <<9, 10>>, handedness |-> "Right", tips |-> FALSE],
       [confidence |-> <<9, 10>>, handedness |-> "Left", tips |-> TRUE]>>,
     <<[confidence |-> <<7, 10>>, handedness |-> "Left", tips |-> TRUE],
       [confidence |-> <<9, 10>>, handedness |-> "Right", tips |-> TRUE]>>}

VARIABLES
    vcall,      \* an application of getValue: its event and its outcome
    wcall,      \* an application of the window calculation / getDrawOptions
    \* module-level state of canvas.mjs (lines 109-114)
    webcamVideo,            \* 0 (null) or the video element
    webcamStream,           \* 0 (null) or the media stream
    webcamReady,
    webcamDrawLoopStarted,
    detectedHands,
    handposeModel,          \* "null", "loading" (no .model yet) or "ready"
    \* control state of the asynchronous code
    pending,        \* _canvas calls suspended at  await getUserMedia : a bag
    setup,          \* where the setupHandPose call stands
    drawLoop,       \* the drawFrame closure and its requestAnimationFrame
    metaFired,      \* the video elements whose loadedmetadata has fired
    \* what the calls have done so far
    hist,
    lastFrame,      \* the effects of the latest drawFrame
    \* the paint driver
    registrations,  \* the paint loops registered through Pattern.draw
    now,            \* the scheduler's time
    painted         \* the render callbacks the latest tick invoked

valVars == <<vcall>>
winVars == <<wcall>>
camVars == <<webcamVideo, webcamStream, webcamReady, webcamDrawLoopStarted,
             detectedHands, handposeModel, pending, setup, drawLoop,
             metaFired, hist, lastFrame>>
paintVars == <<registrations, now, painted>>
vars == <<vcall, wcall, webcamVideo, webcamStream, webcamReady,
          webcamDrawLoopStarted, detectedHands, handposeModel, pending, setup,
          drawLoop, metaFired, hist, lastFrame, registrations, now, painted>>

(***************************************************************************)
(* The value extractor applied to one event.                               *)
(***************************************************************************)
NoValueCall == [e |-> [value |-> JsUndef], done |-> FALSE, out |-> Return(JsUndef)]

InitValue ==
    \E p \in Payloads :
        vcall = [e |-> [value |-> p], done |-> FALSE, out |-> Return(JsUndef)]

CallGetValue ==
    /\ ~vcall.done
    /\ vcall' = [vcall EXCEPT !.done = TRUE, !.out = getValue(vcall.e)]
    /\ UNCHANGED <<winVars, camVars, paintVars>>

(***************************************************************************)
(* The window calculation and getDrawOptions applied to one options        *)
(* object and one drawTime.                                                *)
(***************************************************************************)
CyclesValues == {Rat(h, 2) : h \in 0..(2 * MaxCycles)}
PlayheadValues == {Rat(k, PlayheadSteps) : k \in 0..PlayheadSteps}

WindowOptions ==
    UNION {{o \in [ks -> CyclesValues \cup PlayheadValues] :
               /\ ("cycles" \in ks => o["cycles"] \in CyclesValues)
               /\ ("playhead" \in ks => o["playhead"] \in PlayheadValues)} :
           ks \in SUBSET {"cycles", "playhead"}}

DrawTimes ==
    {<<Rat(a, 2), Rat(b, 2)>> : a \in (-MaxCycles)..MaxCycles, b \in (-MaxCycles)..MaxCycles}

NoWindowCall ==
    [options |-> NoFields, drawTime |-> <<Num(0), Num(0)>>, stage |-> "idle",
     window |-> <<Num(0), Num(0)>>, result |-> NoFields]

InitWindow ==
    \E o \in WindowOptions, dt \in DrawTimes :
        wcall = [options |-> o, drawTime |-> dt, stage |-> "start",
                 window |-> <<Num(0), Num(0)>>, result |-> NoFields]

\* lines 77-78 of Pattern.prototype.canvas
ComputeWindow ==
    /\ wcall.stage = "start"
    /\ wcall' = [wcall EXCEPT !.stage = "window",
                              !.window = <<from(wcall.options), to(wcall.options)>>]
    /\ UNCHANGED <<valVars, camVars, paintVars>>

\* getDrawOptions applied to the window just computed
InferFromWindow ==
    /\ wcall.stage = "window"
    /\ wcall' = [wcall EXCEPT !.stage = "inferred",
                              !.result = getDrawOptions(wcall.window, wcall.options)]
    /\ UNCHANGED <<valVars, camVars, paintVars>>

\* getDrawOptions applied to an arbitrary drawTime
CallGetDrawOptions ==
    /\ wcall.stage = "start"
    /\ wcall' = [wcall EXCEPT !.stage = "drawopts",
                              !.result = getDrawOptions(wcall.drawTime, wcall.options)]
    /\ UNCHANGED <<valVars, camVars, paintVars>>

(***************************************************************************)
(* The webcam / hand-pose overlay: _canvas, setupHandPose and drawFrame.   *)
(***************************************************************************)
NoFrame ==
    [ran |-> FALSE, ctx |-> 0, ready |-> FALSE, loaded |-> FALSE, hands |-> <<>>,
     afterLaterCall |-> FALSE, blit |-> 0, skeletons |-> <<>>, invoked |-> <<>>]

InitCam ==
    /\ webcamVideo = 0
    /\ webcamStream = 0
    /\ webcamReady = FALSE
    /\ webcamDrawLoopStarted = FALSE
    /\ detectedHands = <<>>
    /\ handposeModel = "null"
    /\ pending = [c \in CanvasArgs |-> 0]
    /\ setup = [stage |-> "none", source |-> 0, handPoseCalls |-> 0,
                detectStarts |-> 0]
    /\ drawLoop = [ctx |-> 0, callback |-> 0, raf |-> 0]
    /\ metaFired = {}
    /\ hist = [calls |-> 0, gumCalls |-> 0, gumAfterDenied |-> 0, denied |-> 0,
               videos |-> 0, streams |-> 0, loopStarts |-> 0,
               fallbacks |-> [x \in Surfaces |-> 0],
               delivered |-> <<>>,
               starter |-> [ctx |-> 0, callback |-> 0], laterCall |-> FALSE]
    /\ lastFrame = NoFrame

\* hand.confidence > 0.8
ConfidentOrEqual(hand) == RLe(<<4, 5>>, hand.confidence)
Confident(hand) == RLt(<<4, 5>>, hand.confidence)

\* the body of drawFrame (lines 191-249) for the closure (ctx, callback),
\* reading the module-level state given as ready, video and hands; the
\* fields ready, loaded and hands record what the frame read: webcamReady,
\* whether the video it read had fired loadedmetadata, and detectedHands;
\* afterLaterCall, whether a _canvas call with another ctx and another
\* callback than the loop's had reached line 157 before the frame
FrameOf(ctx, callback, ready, video, hands) ==
    [ran |-> TRUE,
     ctx |-> ctx,
     ready |-> ready,
     loaded |-> video \in metaFired,
     hands |-> hands,
     afterLaterCall |-> hist.laterCall,
     blit |-> IF ready THEN video ELSE 0,
     skeletons |-> IF ready THEN SelectSeq(hands, Confident) ELSE <<>>,
     invoked |-> IF ready /\ callback # 0
                 THEN LET Called(hand) == Confident(hand) /\ hand.tips
                          called == SelectSeq(hands, Called)
                      IN  [i \in 1..Len(called) |->
                              [callback |-> callback, hand |-> called[i]]]
                 ELSE <<>>]

\* setupHandPose(video) up to its first await (lines 116-120)
SetupHandPoseEnter(source) ==
    IF handposeModel = "null"
    THEN [setup EXCEPT !.stage = "awaitHandPose", !.source = source,
                       !.handPoseCalls = @ + 1]
    ELSE setup

\* lines 157-254 of _canvas for the call c: start the draw loop unless it is
\* started; video is the value of webcamVideo the call reads
StartLoopUnguarded(c, video) ==
    /\ webcamDrawLoopStarted' = TRUE
    /\ setup' = IF video # 0 THEN SetupHandPoseEnter(c.ctx) ELSE setup
    /\ lastFrame' = FrameOf(c.ctx, c.callback, webcamReady, video, detectedHands)
    /\ drawLoop' = [ctx |-> c.ctx, callback |-> c.callback, raf |-> drawLoop.raf + 1]
StartLoopRebinding(c, video) ==
    IF ~webcamDrawLoopStarted
    THEN /\ webcamDrawLoopStarted' = TRUE
         /\ setup' = IF video # 0 THEN SetupHandPoseEnter(c.ctx) ELSE setup
         /\ lastFrame' = FrameOf(c.ctx, c.callback, webcamReady, video, detectedHands)
         /\ drawLoop' = [ctx |-> c.ctx, callback |-> c.callback, raf |-> drawLoop.raf + 1]
    ELSE /\ drawLoop' = [drawLoop EXCEPT !.ctx = c.ctx, !.callback = c.callback]
         /\ UNCHANGED <<webcamDrawLoopStarted, setup, lastFrame>>
StartLoop(c, video) ==
    IF ~webcamDrawLoopStarted
    THEN /\ webcamDrawLoopStarted' = TRUE
         /\ setup' = IF video # 0 THEN SetupHandPoseEnter(c.ctx) ELSE setup
         /\ lastFrame' = FrameOf(c.ctx, c.callback, webcamReady, video, detectedHands)
         /\ drawLoop' = [ctx |-> c.ctx, callback |-> c.callback, raf |-> drawLoop.raf + 1]
    ELSE UNCHANGED <<webcamDrawLoopStarted, setup, lastFrame, drawLoop>>

\* the record h of what the calls have done, after the calls of the
\* sequence cs have reached line 157 in this order: the call that starts
\* the loop, and whether a call with another ctx and another callback came
\* after it
PassedGuard(h, cs) ==
    LET starter == IF webcamDrawLoopStarted THEN h.starter ELSE Head(cs)
        later == IF webcamDrawLoopStarted THEN cs ELSE Tail(cs)
    IN  [h EXCEPT !.starter = starter,
                  !.loopStarts = IF webcamDrawLoopStarted THEN @ ELSE @ + 1,
                  !.laterCall = @ \/ \E k \in DOMAIN later :
                                        /\ later[k].ctx # starter.ctx
                                        /\ later[k].callback # starter.callback]

\* the bag b with the calls of the sequence cs added
RECURSIVE AddCalls(_, _)
AddCalls(b, cs) ==
    IF cs = <<>> THEN b
    ELSE AddCalls([b EXCEPT ![Head(cs)] = @ + 1], Tail(cs))

\* _canvas(c) for each call c of the sequence cs, one after the other, each
\* up to its first await or to its end (lines 130-137, 157-254)
EnterCanvas(cs) ==
    IF webcamVideo = 0
    THEN \* every call requests the camera and suspends
         /\ pending' = AddCalls(pending, cs)
         /\ hist' = [hist EXCEPT !.calls = @ + Len(cs),
                                 !.gumCalls = @ + Len(cs),
                                 !.gumAfterDenied =
                                     IF hist.denied > 0 THEN @ + Len(cs) ELSE @]
         /\ UNCHANGED <<webcamVideo, webcamStream, webcamReady,
                        webcamDrawLoopStarted, detectedHands, handposeModel,
                        setup, drawLoop, metaFired, lastFrame>>
    ELSE /\ IF cs # <<>>
            THEN /\ StartLoop(Head(cs), webcamVideo)
                 /\ hist' = [PassedGuard(hist, cs) EXCEPT !.calls = @ + Len(cs)]
            ELSE UNCHANGED <<webcamDrawLoopStarted, setup, lastFrame, drawLoop, hist>>
         /\ UNCHANGED <<webcamVideo, webcamStream, webcamReady, detectedHands,
                        handposeModel, pending, metaFired>>

\* a direct call of the exported _canvas (also made by getCanvasPainter and
\* drawcanvas)
CallCanvas ==
    \E c \in CanvasArgs :
        /\ hist.calls < MaxCalls
        /\ EnterCanvas(<<c>>)
        /\ UNCHANGED <<valVars, winVars, paintVars>>

\* getUserMedia resolves for a suspended call: lines 137-144, then 157-254
GumResolve ==
    \E c \in CanvasArgs :
        /\ pending[c] > 0
        /\ pending' = [pending EXCEPT ![c] = @ - 1]
        /\ webcamStream' = hist.streams + 1
        /\ webcamVideo' = hist.videos + 1
        /\ StartLoop(c, hist.videos + 1)
        /\ hist' = [PassedGuard(hist, <<c>>) EXCEPT !.streams = @ + 1,
                                                    !.videos = @ + 1]
        /\ UNCHANGED <<webcamReady, detectedHands, handposeModel, metaFired>>
        /\ UNCHANGED <<valVars, winVars, paintVars>>

\* getUserMedia rejects for a suspended call: lines 145-153
GumRejectFallsThrough ==
    \E c \in CanvasArgs :
        /\ pending[c] > 0
        /\ pending' = [pending EXCEPT ![c] = @ - 1]
        /\ StartLoop(c, webcamVideo)
        /\ hist' = [PassedGuard(hist, <<c>>) EXCEPT !.denied = @ + 1,
                                                    !.fallbacks[c.ctx] = @ + 1]
        /\ UNCHANGED <<webcamVideo, webcamStream, webcamReady, detectedHands,
                       handposeModel, metaFired>>
        /\ UNCHANGED <<valVars, winVars, paintVars>>
GumReject ==
    \E c \in CanvasArgs :
        /\ pending[c] > 0
        /\ pending' = [pending EXCEPT ![c] = @ - 1]
        /\ hist' = [hist EXCEPT !.denied = @ + 1,
                                !.fallbacks[c.ctx] = @ + 1]
        /\ UNCHANGED <<webcamVideo, webcamStream, webcamReady,
                       webcamDrawLoopStarted, detectedHands, handposeModel,
                       setup, drawLoop, metaFired, lastFrame>>
        /\ UNCHANGED <<valVars, winVars, paintVars>>

\* a video element fires loadedmetadata: the listener of lines 142-144
LoadedMetadata ==
    \E v \in 1..hist.videos :
        /\ v \notin metaFired
        /\ metaFired' = metaFired \cup {v}
        /\ webcamReady' = TRUE
        /\ UNCHANGED <<webcamVideo, webcamStream, webcamDrawLoopStarted,
                       detectedHands, handposeModel, pending, setup, drawLoop,
                       hist, lastFrame>>
        /\ UNCHANGED <<valVars, winVars, paintVars>>

\* the animation frame fires: drawFrame (lines 190-252)
drawFrameOnlyWhenReady ==
    /\ drawLoop.raf > 0
    /\ lastFrame' = FrameOf(drawLoop.ctx, drawLoop.callback, webcamReady,
                            webcamVideo, detectedHands)
    /\ drawLoop' = [drawLoop EXCEPT !.raf = IF webcamReady THEN (@ - 1) + 1 ELSE @ - 1]
    /\ UNCHANGED <<webcamVideo, webcamStream, webcamReady, webcamDrawLoopStarted,
                   detectedHands, handposeModel, pending, setup, metaFired, hist>>
    /\ UNCHANGED <<valVars, winVars, paintVars>>
drawFrame ==
    /\ drawLoop.raf > 0
    /\ lastFrame' = FrameOf(drawLoop.ctx, drawLoop.callback, webcamReady,
                            webcamVideo, detectedHands)
    /\ drawLoop' = [drawLoop EXCEPT !.raf = (@ - 1) + 1]
    /\ UNCHANGED <<webcamVideo, webcamStream, webcamReady, webcamDrawLoopStarted,
                   detectedHands, handposeModel, pending, setup, metaFired, hist>>
    /\ UNCHANGED <<valVars, winVars, paintVars>>

\* await ml5.handPose(...) resolves (line 120), then the first test of the
\* polling loop (line 121); the model object may or may not have its .model
HandPoseResolved ==
    \E loaded \in BOOLEAN :
        /\ setup.stage = "awaitHandPose"
        /\ handposeModel' = IF loaded THEN "ready" ELSE "loading"
        /\ setup' = IF loaded
                    THEN [setup EXCEPT !.stage = "detecting", !.detectStarts = @ + 1]
                    ELSE [setup EXCEPT !.stage = "polling"]
        /\ UNCHANGED <<webcamVideo, webcamStream, webcamReady,
                       webcamDrawLoopStarted, detectedHands, pending, drawLoop,
                       metaFired, hist, lastFrame>>
        /\ UNCHANGED <<valVars, winVars, paintVars>>

\* ml5 finishes loading and sets handposeModel.model
ModelLoaded ==
    /\ handposeModel = "loading"
    /\ handposeModel' = "ready"
    /\ UNCHANGED <<webcamVideo, webcamStream, webcamReady, webcamDrawLoopStarted,
                   detectedHands, pending, setup, drawLoop, metaFired, hist,
                   lastFrame>>
    /\ UNCHANGED <<valVars, winVars, paintVars>>

\* the 100 ms timer of the polling loop fires (lines 121-126)
PollTimeoutNoCheck ==
    /\ setup.stage = "polling"
    /\ setup' = [setup EXCEPT !.stage = "detecting", !.detectStarts = @ + 1]
    /\ UNCHANGED <<webcamVideo, webcamStream, webcamReady, webcamDrawLoopStarted,
                   detectedHands, handposeModel, pending, drawLoop, metaFired,
                   hist, lastFrame>>
    /\ UNCHANGED <<valVars, winVars, paintVars>>
PollTimeout ==
    /\ setup.stage = "polling"
    /\ setup' = IF handposeModel = "ready"
                THEN [setup EXCEPT !.stage = "detecting", !.detectStarts = @ + 1]
                ELSE setup
    /\ UNCHANGED <<webcamVideo, webcamStream, webcamReady, webcamDrawLoopStarted,
                   detectedHands, handposeModel, pending, drawLoop, metaFired,
                   hist, lastFrame>>
    /\ UNCHANGED <<valVars, winVars, paintVars>>

\* the detection callback of lines 124-126; hist.delivered records the
\* result list ml5 handed to it
DetectionMerging ==
    \E results \in DetectionResults :
        /\ setup.stage = "detecting"
        /\ detectedHands' = detectedHands \o results
        /\ hist' = [hist EXCEPT !.delivered = results]
        /\ UNCHANGED <<webcamVideo, webcamStream, webcamReady,
                       webcamDrawLoopStarted, handposeModel, pending, setup,
                       drawLoop, metaFired, lastFrame>>
        /\ UNCHANGED <<valVars, winVars, paintVars>>
Detection ==
    \E results \in DetectionResults :
        /\ setup.stage = "detecting"
        /\ detectedHands' = results
        /\ hist' = [hist EXCEPT !.delivered = results]
        /\ UNCHANGED <<webcamVideo, webcamStream, webcamReady,
                       webcamDrawLoopStarted, handposeModel, pending, setup,
                       drawLoop, metaFired, lastFrame>>
        /\ UNCHANGED <<valVars, winVars, paintVars>>

(***************************************************************************)
(* The paint driver: Pattern.prototype.canvas registers a paint callback   *)
(* through Pattern.prototype.draw, and the scheduler ticks it.             *)
(***************************************************************************)
\* the events (haps) of the pattern, each with its whole [begin, end)
PatternHaps ==
    {[whole |-> [begin |-> Num(b), end |-> Num(b + 1)]] : b \in (-HapSpan)..HapSpan}
    \cup {[whole |-> [begin |-> Num(-1), end |-> Num(1)]]}

\* pattern.queryArc(begin, end): the events overlapping [begin, end]
queryArc(begin, end) ==
    {hap \in PatternHaps : RLe(hap.whole.begin, end) /\ RLe(begin, hap.whole.end)}

\* hap.isWithinTime(min, max): the event overlaps [min, max)
isWithinTime(hap, min, max) == RLt(hap.whole.begin, max) /\ RLt(min, hap.whole.end)

\* const inFrame = (hap, t) => ...   (line 79), in the closure fn
InFrameFlagInverted(fn, hap, t) ==
    /\ (fn.hideNegative \/ RLe(Num(0), hap.whole.begin))
    /\ isWithinTime(hap, RAdd(t, fn.from), RAdd(t, fn.to))
inFrame(fn, hap, t) ==
    /\ (~fn.hideNegative \/ RLe(Num(0), hap.whole.begin))
    /\ isWithinTime(hap, RAdd(t, fn.from), RAdd(t, fn.to))

\* the id handed to draw: { id = 1 } = options
IdIgnored(options) == 1
IdFreshWhenUnset(options) == Dflt(options, "id", 0 - Len(registrations))
optId(options) == Dflt(options, "id", 1)

\* the ctx of the closure: { ctx = getDrawContext() } = options
optCtx(options) == Dflt(options, "ctx", DefaultCtx)

\* the options a pattern attaches a canvas with
WindowAndSurface ==
    [k \in {"cycles", "playhead", "overscan", "ctx", "callback"} |->
        CASE k = "cycles" -> Num(2)
          [] k = "playhead" -> <<1, 4>>
          [] k = "overscan" -> Num(1)
          [] k = "ctx" -> 2
          [] k = "callback" -> 1]

PaintOptions ==
    {Spread(Spread(a, b), c) :
        a \in {NoFields, [k \in {"id"} |-> 1], [k \in {"id"} |-> 2]},
        b \in {NoFields, [k \in {"hideNegative"} |-> TRUE]},
        c \in {NoFields, WindowAndSurface}}

\* the closure of the paint callback of lines 81-88
Painter(options) ==
    [options |-> options,
     ctx |-> optCtx(options),
     from |-> from(options),
     to |-> to(options),
     hideNegative |-> optHideNegative(options)]

\* Pattern.prototype.draw(fn, { lookbehind, lookahead, id }): the loop
\* registered under id replaces the one that was registered under it
draw(regs, fn, o) ==
    Append([i \in DOMAIN regs |->
               IF regs[i].id = o.id THEN [regs[i] EXCEPT !.active = FALSE] ELSE regs[i]],
           [id |-> o.id, lookbehind |-> o.lookbehind, lookahead |-> o.lookahead,
            fn |-> fn, active |-> TRUE])

InitPaint ==
    /\ registrations = <<>>
    /\ now = 0
    /\ painted = [time |-> 0 - 1, attached |-> 0, calls |-> <<>>,
                  failed |-> {}, prevFailed |-> {}]

\* Pattern.prototype.canvas(options)   (lines 74-96)
canvas ==
    \E options \in PaintOptions :
        /\ Len(registrations) < MaxAttach
        /\ registrations' =
               draw(registrations, Painter(options),
                    [lookbehind |-> drawLookbehind(options),
                     lookahead |-> drawLookahead(options),
                     id |-> optId(options)])
        /\ UNCHANGED <<now, painted>>
        /\ UNCHANGED <<valVars, winVars, camVars>>

\* the paint callback (lines 81-88) of registration i, called with the
\* queried haps and the time: the object it hands to _canvas
PaintUnfiltered(i, haps, time) ==
    LET fn == registrations[i].fn
    IN  [reg |-> i,
         queried |-> haps,
         time |-> time,
         ctx |-> fn.ctx,
         callback |-> Dflt(fn.options, "callback", 0),
         haps |-> haps]
Paint(i, haps, time) ==
    LET fn == registrations[i].fn
    IN  [reg |-> i,
         queried |-> haps,
         time |-> time,
         ctx |-> fn.ctx,
         callback |-> Dflt(fn.options, "callback", 0),
         haps |-> {hap \in haps : inFrame(fn, hap, Num(time))}]

\* the registrations that are active, in the order they were made
RECURSIVE ActiveFrom(_)
ActiveFrom(i) ==
    IF i > Len(registrations) THEN <<>>
    ELSE IF registrations[i].active THEN <<i>> \o ActiveFrom(i + 1)
    ELSE ActiveFrom(i + 1)

\* one scheduler tick in which the query of the registrations in failing
\* raises: every other active registration queries the pattern over
\* [now + lookbehind, now + lookahead] and calls its paint callback, which
\* calls _canvas; a registration whose query raised is skipped for the tick
\* and stays registered
TickWith(failing) ==
    /\ now <= MaxTime
    /\ LET active == SelectSeq(ActiveFrom(1), LAMBDA i : i \notin failing)
           calls == [k \in 1..Len(active) |->
                        LET r == registrations[active[k]]
                        IN  Paint(active[k],
                                  queryArc(RAdd(Num(now), r.lookbehind),
                                           RAdd(Num(now), r.lookahead)),
                                  now)]
       IN  /\ painted' = [time |-> now, attached |-> Len(registrations),
                          calls |-> calls, failed |-> failing,
                          prevFailed |-> painted.failed]
           /\ EnterCanvas([k \in 1..Len(calls) |->
                              [ctx |-> calls[k].ctx, callback |-> calls[k].callback]])
    /\ now' = now + 1
    /\ UNCHANGED registrations
    /\ UNCHANGED <<valVars, winVars>>

\* a tick in which every query succeeds
Tick == TickWith({})

\* a tick in which the query of at least one active registration raises
TickQueryError ==
    \E failing \in SUBSET {i \in DOMAIN registrations : registrations[i].active} :
        /\ failing # {}
        /\ TickWith(failing)

Init == InitCam /\ InitPaint /\ vcall = NoValueCall /\ wcall = NoWindowCall

Next ==
    \/ CallCanvas
    \/ GumResolve
    \/ GumReject
    \/ LoadedMetadata
    \/ drawFrame
    \/ HandPoseResolved
    \/ ModelLoaded
    \/ PollTimeout
    \/ Detection

Spec == Init /\ [][Next]_vars

\* the 100 ms timer of the polling loop always fires in the end
SpecLive == Init /\ [][Next]_vars /\ WF_vars(PollTimeout)

NextPaint == canvas \/ Tick \/ GumResolve
SpecPaint == Init /\ [][NextPaint]_vars

NextPaintErr == canvas \/ Tick \/ TickQueryError
SpecPaintErr == Init /\ [][NextPaintErr]_vars

InitVal == InitValue /\ wcall = NoWindowCall /\ InitCam /\ InitPaint
NextVal == CallGetValue
SpecVal == InitVal /\ [][NextVal]_vars

InitWin == InitWindow /\ vcall = NoValueCall /\ InitCam /\ InitPaint
NextWin == ComputeWindow \/ InferFromWindow \/ CallGetDrawOptions
SpecWin == InitWin /\ [][NextWin]_vars

(***************************************************************************)
(* Claims about the camera request of _canvas (checked under Spec).        *)
(***************************************************************************)

\* C1 as stated: once camera access has been denied, the fallback message
\* has been rendered exactly once on the surface and getUserMedia is never
\* called again by a later _canvas call.
C1_FallbackOnceNoRetry ==
    hist.denied > 0 =>
        /\ \A x \in Surfaces : hist.fallbacks[x] <= 1
        /\ hist.gumAfterDenied = 0

\* C2 as stated: over any number of _canvas calls and any interleaving of
\* their await points, getUserMedia is invoked at most once and at most one
\* stream and one video element are ever assigned.
C2_CameraRequestedOnce ==
    /\ hist.gumCalls <= 1
    /\ hist.streams <= 1
    /\ hist.videos <= 1

(***************************************************************************)
(* Claims about the paint driver (checked under SpecPaint).                *)
(***************************************************************************)

\* C3: after any sequence of Pattern.canvas attachments there is exactly one
\* active paint loop for every id that was attached (an absent id counts as
\* id 1), so a re-attachment replaces the prior registration.
C3_OneLoopPerId ==
    LET idOf(i) == IF "id" \in DOMAIN registrations[i].fn.options
                   THEN registrations[i].fn.options["id"] ELSE 1
    IN  \A i \in DOMAIN registrations :
            Cardinality({j \in DOMAIN registrations :
                            registrations[j].active /\ idOf(j) = idOf(i)}) = 1

\* two attachments that both left id at its default: the first was replaced
C3_Witness ==
    /\ Len(registrations) = 2
    /\ "id" \notin DOMAIN registrations[1].fn.options
    /\ "id" \notin DOMAIN registrations[2].fn.options
    /\ ~registrations[1].active
    /\ registrations[2].active

\* C4: a scheduler tick after attaching visualizations with distinct ids
\* invokes the render callback of each of them exactly once, with the tick's
\* time, its own drawing context and its own filtered events.
C4_EachPaintedOnce ==
    (painted.time >= 0 /\ painted.attached = Len(registrations)) =>
        LET opts(i) == registrations[i].fn.options
            idOf(i) == IF "id" \in DOMAIN opts(i) THEN opts(i)["id"] ELSE 1
            Latest(i) == \A y \in DOMAIN registrations : y > i => idOf(y) # idOf(i)
            hide(i) == "hideNegative" \in DOMAIN opts(i) /\ opts(i)["hideNegative"]
            Visible(i, h) ==
                /\ (~hide(i) \/ RLe(Num(0), h.whole.begin))
                /\ RLt(h.whole.begin, RAdd(Num(painted.time), registrations[i].fn.to))
                /\ RLt(RAdd(Num(painted.time), registrations[i].fn.from), h.whole.end)
        IN  \A i, j \in DOMAIN registrations :
                (idOf(i) # idOf(j) /\ Latest(i) /\ Latest(j)) =>
                    LET hits == {k \in DOMAIN painted.calls : painted.calls[k].reg = i}
                    IN  /\ Cardinality(hits) = 1
                        /\ \A k \in hits :
                              /\ painted.calls[k].time = painted.time
                              /\ painted.calls[k].ctx =
                                     (IF "ctx" \in DOMAIN opts(i) THEN opts(i)["ctx"] ELSE 1)
                              /\ painted.calls[k].haps =
                                     {h \in painted.calls[k].queried : Visible(i, h)}

\* two visualizations with ids 1 and 2 on different surfaces, ticked once
C4_Witness ==
    /\ Len(registrations) = 2
    /\ registrations[1].id = 1 /\ registrations[2].id = 2
    /\ painted.attached = 2
    /\ Len(painted.calls) = 2
    /\ painted.calls[1].reg = 1 /\ painted.calls[2].reg = 2
    /\ painted.calls[1].ctx # painted.calls[2].ctx
    /\ painted.calls[1].haps # painted.calls[2].haps

\* C5: on every tick at time t the events handed to the render callback are
\* exactly the queried events for which (hideNegative is false or
\* whole.begin >= 0) and the event is within [t + from, t + to); the event
\* [-1, 1) in the window [-2, 2) is excluded when hideNegative is true and
\* included when it is false; the verdict for an event with begin >= 0 does
\* not depend on hideNegative.
C5_FrameFilter ==
    \A k \in DOMAIN painted.calls :
        LET p == painted.calls[k]
            fn == registrations[p.reg].fn
            hide == "hideNegative" \in DOMAIN fn.options /\ fn.options["hideNegative"]
            lo == RAdd(Num(p.time), fn.from)
            hi == RAdd(Num(p.time), fn.to)
            Within(h) == RLt(h.whole.begin, hi) /\ RLt(lo, h.whole.end)
            long == [whole |-> [begin |-> Num(-1), end |-> Num(1)]]
        IN  /\ p.haps = {h \in p.queried :
                            (~hide \/ RLe(Num(0), h.whole.begin)) /\ Within(h)}
            /\ ((lo = Num(-2) /\ hi = Num(2)) => (long \in p.haps <=> ~hide))
            /\ \A h \in p.queried :
                   RLe(Num(0), h.whole.begin) => (h \in p.haps <=> Within(h))

\* one tick at time 0 with the window [-2, 2): the event [-1, 1) was handed
\* to the visualization without hideNegative and withheld from the one with
C5_Witness ==
    LET long == [whole |-> [begin |-> Num(-1), end |-> Num(1)]]
    IN  /\ Len(painted.calls) = 2
        /\ painted.time = 0
        /\ \A k \in {1, 2} :
               /\ registrations[painted.calls[k].reg].fn.from = Num(-2)
               /\ registrations[painted.calls[k].reg].fn.to = Num(2)
               /\ long \in painted.calls[k].queried
        /\ registrations[painted.calls[1].reg].fn.hideNegative
        /\ long \notin painted.calls[1].haps
        /\ ~registrations[painted.calls[2].reg].fn.hideNegative
        /\ long \in painted.calls[2].haps

\* C9: Pattern.canvas registers lookbehind = from - overscan and
\* lookahead = to + overscan, so a tick at time t queries
\* [t + from - overscan, t + to + overscan], and every event of the pattern
\* that is within the frame [t + from, t + to) is in the queried set.
C9_QueryCoversFrame ==
    LET overscan(i) == IF "overscan" \in DOMAIN registrations[i].fn.options
                       THEN registrations[i].fn.options["overscan"] ELSE Num(0)
    IN  /\ \A i \in DOMAIN registrations :
               /\ registrations[i].lookbehind = RSub(registrations[i].fn.from, overscan(i))
               /\ registrations[i].lookahead = RAdd(registrations[i].fn.to, overscan(i))
        /\ \A k \in DOMAIN painted.calls :
               LET p == painted.calls[k]
                   fn == registrations[p.reg].fn
                   lo == RAdd(Num(p.time), fn.from)
                   hi == RAdd(Num(p.time), fn.to)
               IN  /\ p.queried =
                          {h \in PatternHaps :
                              /\ RLe(h.whole.begin, RAdd(hi, overscan(p.reg)))
                              /\ RLe(RSub(lo, overscan(p.reg)), h.whole.end)}
                   /\ \A h \in PatternHaps :
                          (RLt(h.whole.begin, hi) /\ RLt(lo, h.whole.end)) =>
                              h \in p.queried

\* a tick of a visualization with overscan 1: the queried set holds the
\* events of the frame and events outside it
C9_Witness ==
    \E k \in DOMAIN painted.calls :
        LET p == painted.calls[k]
            fn == registrations[p.reg].fn
        IN  /\ "overscan" \in DOMAIN fn.options
            /\ fn.options["overscan"] = Num(1)
            /\ ~fn.hideNegative
            /\ p.haps # {}
            /\ p.haps \subseteq p.queried
            /\ p.haps # p.queried

(***************************************************************************)
(* Claims about the window calculation (checked under SpecWin).            *)
(***************************************************************************)

C7_RoundTripAlways ==
    wcall.stage = "inferred" =>
        /\ wcall.result["cycles"] = optCycles(wcall.options)
        /\ wcall.result["playhead"] = optPlayhead(wcall.options)

\* C7 as amended: the round trip returns the original cycles; it returns the
\* original playhead when cycles > 0, and playhead 0 when cycles = 0.
C7_RoundTrip ==
    wcall.stage = "inferred" =>
        LET cycles   == IF "cycles" \in DOMAIN wcall.options
                        THEN wcall.options["cycles"] ELSE Num(4)
            playhead == IF "playhead" \in DOMAIN wcall.options
                        THEN wcall.options["playhead"] ELSE <<1, 2>>
        IN  /\ wcall.result["cycles"] = cycles
            /\ (cycles # Num(0) => wcall.result["playhead"] = playhead)
            /\ (cycles = Num(0) => wcall.result["playhead"] = Num(0))

\* a round trip through a window with cycles = 3/2 and playhead = 1/4
C7_Witness ==
    /\ wcall.stage = "inferred"
    /\ "cycles" \in DOMAIN wcall.options /\ wcall.options["cycles"] = <<3, 2>>
    /\ "playhead" \in DOMAIN wcall.options /\ wcall.options["playhead"] = <<1, 4>>
    /\ wcall.window = <<<<-3, 8>>, <<9, 8>>>>
    /\ wcall.result["playhead"] = <<1, 4>>

\* C8: getDrawOptions returns cycles = lookahead + |lookbehind| and
\* playhead = |lookbehind| / cycles, with playhead = 0 whenever cycles = 0
\* (no division by zero), whatever cycles and playhead the options argument
\* carries.
C8_DrawOptionsFromDrawTime ==
    wcall.stage = "drawopts" =>
        LET lookbehind == RAbs(wcall.drawTime[1])
            lookahead  == wcall.drawTime[2]
            r == wcall.result
        IN  /\ r["cycles"] = RAdd(lookahead, lookbehind)
            /\ r["playhead"] \notin {NaN, Infinity, RNeg(Infinity)}
            /\ (r["cycles"] = Num(0) => r["playhead"] = Num(0))
            /\ (r["cycles"] # Num(0) => RMul(r["playhead"], r["cycles"]) = lookbehind)

\* getDrawOptions([0, 0], options) with options that carry their own cycles
\* and playhead has returned cycles = 0 and playhead = 0
C8_Witness ==
    /\ wcall.stage = "drawopts"
    /\ wcall.drawTime = <<Num(0), Num(0)>>
    /\ "playhead" \in DOMAIN wcall.options /\ wcall.options["playhead"] = <<1, 2>>
    /\ "cycles" \in DOMAIN wcall.options /\ wcall.options["cycles"] = Num(2)
    /\ wcall.result["cycles"] = Num(0)
    /\ wcall.result["playhead"] = Num(0)

(***************************************************************************)
(* Claims about the value extractor (checked under SpecVal).               *)
(***************************************************************************)

\* C10 as stated: getValue is total, it returns a value and never throws,
\* for every payload (bare scalar, null, undefined, object).
C10_GetValueNeverThrows == vcall.done => ~vcall.out.thrown

\* C11 as stated: getValue resolves a payload in a fixed order: a freq field
\* that is present gives freqToMidi(freq), whatever note, n and s are;
\* otherwise note (falling back to n) decides, a string giving
\* noteToMidi(note) or 0 when the conversion fails, a number being returned
\* as is; otherwise an s that is present gives '_' + s; otherwise the
\* (wrapped) raw value is returned.
C11_Precedence ==
    vcall.done =>
        LET raw == vcall.e.value
            value == IF raw.t \in {"object", "null"}
                     THEN raw ELSE JsObj([k \in {"value"} |-> raw])
            has(k) == k \in DOMAIN value.f
            note == IF has("note") /\ value.f["note"].t # "null"
                    THEN value.f["note"]
                    ELSE IF has("n") THEN value.f["n"] ELSE JsUndef
            out == vcall.out
        IN  /\ ~out.thrown
            /\ IF has("freq")
               THEN \* freqToMidi(0) is -Infinity, which no pitch number equals
                    /\ value.f["freq"].n # 0
                    /\ out.val = JsNum(freqToMidi(value.f["freq"].n))
               ELSE IF note.t = "string"
               THEN out.val = JsNum(IF note.s \in DOMAIN NoteTable
                                    THEN NoteTable[note.s] ELSE 0)
               ELSE IF note.t = "number"
               THEN out.val = note
               ELSE IF has("s")
               THEN out.val = JsStr("_" \o value.f["s"].s)
               ELSE out.val = value

(***************************************************************************)
(* Claims about a failing pattern query (checked under SpecPaintErr).      *)
(***************************************************************************)

C15_LatestDetectionOnly ==
    /\ [](/\ detectedHands = hist.delivered
          /\ (setup.detectStarts = 0 => detectedHands = <<>>))
    /\ [][lastFrame' # lastFrame =>
              /\ lastFrame'.ran
              /\ lastFrame'.hands = detectedHands]_vars

\* two different non-empty results were delivered, a frame read the earlier
\* one and the slot now holds the later one
C15_Witness ==
    /\ lastFrame.ready
    /\ lastFrame.hands # <<>>
    /\ detectedHands # <<>>
    /\ detectedHands # lastFrame.hands

\* C16: at most one redraw loop is ever started: over any sequence and
\* interleaving of _canvas calls the first drawFrame() behind the
\* webcamDrawLoopStarted guard runs at most once, so at most one chain of
\* animation frames is alive, and it is alive exactly when the flag is set.
C16_AtMostOneLoop ==
    /\ hist.loopStarts <= 1
    /\ drawLoop.raf <= 1
    /\ (hist.loopStarts = 1) = webcamDrawLoopStarted

\* two overlapping _canvas calls both got the camera and a third call came
\* after them, yet one loop was started
C16_Witness ==
    /\ hist.videos >= 2
    /\ hist.calls >= 3
    /\ \A c \in CanvasArgs : pending[c] = 0
    /\ hist.loopStarts = 1

\* C18: the redraw loop is bound to the _canvas call that started it: every
\* frame draws on that call's context (with its width and height) and
\* invokes that call's callback, and the context and callback of a later
\* _canvas call are never used by the loop.
C18_LoopBoundToStarter ==
    /\ webcamDrawLoopStarted =>
           /\ drawLoop.ctx = hist.starter.ctx
           /\ drawLoop.callback = hist.starter.callback
    /\ lastFrame.ran =>
           /\ lastFrame.ctx = hist.starter.ctx
           /\ \A k \in DOMAIN lastFrame.invoked :
                  lastFrame.invoked[k].callback = hist.starter.callback

\* a frame ran, and invoked the callback, after a _canvas call with another
\* context and another callback had come
C18_Witness ==
    /\ lastFrame.afterLaterCall
    /\ lastFrame.invoked # <<>>

\* C19: in every reachable state webcamDrawLoopStarted implies that
\* webcamVideo is non-null, and so does webcamReady; a _canvas call whose
\* camera request is denied returns without starting the loop or the pose
\* model; and none of webcamVideo, webcamDrawLoopStarted, webcamReady and
\* handposeModel is ever reset once set.
C19_CameraStateOnlyGrows ==
    /\ [](/\ webcamDrawLoopStarted => webcamVideo # 0
          /\ webcamReady => webcamVideo # 0)
    /\ [][/\ hist'.denied > hist.denied =>
                 /\ webcamDrawLoopStarted' = webcamDrawLoopStarted
                 /\ hist'.loopStarts = hist.loopStarts
                 /\ drawLoop' = drawLoop
                 /\ setup' = setup
                 /\ handposeModel' = handposeModel
                 /\ webcamVideo' = webcamVideo
          /\ webcamVideo # 0 => webcamVideo' # 0
          /\ webcamDrawLoopStarted => webcamDrawLoopStarted'
          /\ webcamReady => webcamReady'
          /\ handposeModel # "null" => handposeModel' # "null"]_vars

\* a camera request was denied, a later one was granted, and the loop,
\* the video and the pose model are all set up
C19_Witness ==
    /\ hist.denied > 0
    /\ webcamDrawLoopStarted
    /\ webcamReady
    /\ handposeModel = "ready"

\* C20 as stated: whenever a redraw frame blits the camera image, the video
\* element it reads (the current webcamVideo) is one whose loadedmetadata
\* event has already fired, for every interleaving of _canvas calls,
\* including calls that overlap while a getUserMedia request is pending.
C20_BlitOnlyLoadedVideo ==
    (lastFrame.ran /\ lastFrame.blit # 0) => lastFrame.loaded

(***************************************************************************)
(* The pose model (checked under SpecLive, whose polling timer is fair).   *)
(***************************************************************************)

\* C17: the pose model is set up at most once and detection starts only
\* after the model has finished loading: ml5.handPose is called at most
\* once over any sequence of _canvas calls, detectStart is never called
\* while handposeModel.model is unset, it is called at most once, and once
\* the model has become ready detectStart is eventually called.
C17_DetectAfterModelReady ==
    /\ [](/\ setup.handPoseCalls <= 1
          /\ setup.detectStarts <= 1
          /\ (setup.detectStarts > 0 => handposeModel = "ready")
          /\ (setup.stage = "detecting") = (setup.detectStarts = 1))
    /\ (handposeModel = "ready" ~> setup.detectStarts = 1)

\* the model was still loading when ml5.handPose resolved, setupHandPose
\* polls, and the model has become ready in the meantime, with several
\* _canvas calls made: detectStart is due
C17_Witness ==
    /\ setup.stage = "polling"
    /\ handposeModel = "ready"
    /\ setup.detectStarts = 0
    /\ hist.calls >= 2

====
